---- MODULE Spec2Model ----
(***************************************************************************)
(* Model of the CLI template: the file-based configuration store          *)
(* (src/utils/configManager.ts), the promise helpers (src/utils/timeout.ts), *)
(* the config commands (src/commands/config) and the process set up by      *)
(* src/index.ts with its logger.                                            *)
(*                                                                         *)
(* Strings are sequences of tokens.  The tokens are chosen so that every   *)
(* occurrence of the text ".json" in a concatenation of tokens is exactly  *)
(* one ".json" token, and "/" occurs only as the "/" token: substring      *)
(* search, endsWith, replace and path splitting are therefore exact on     *)
(* the token level.  Lengths are counted in characters (TokLen).           *)
(***************************************************************************)
EXTENDS Integers, Sequences, FiniteSets, TLC

VARIABLES
    files, last, saved,                         \* the configuration store
    schemaIn, schemaOut,                        \* one AppConfigSchema.safeParse call
    promise, ms, timeoutError, timeoutId,       \* one withTimeout call
    timeoutPromise, race, result, jobs, now, deadline, first,
    options, attempt, lastError, retryPc,       \* one retry call
    retryResult, events,
    io,                                         \* the latest store call under I/O failures
    cmd,                                        \* one run of a config command
    proc                                        \* the node process of one run (index.ts)

storeVars   == <<files, last, saved>>
schemaVars  == <<schemaIn, schemaOut>>
timeoutVars == <<promise, ms, timeoutError, timeoutId, timeoutPromise, race, result,
                 jobs, now, deadline, first>>
retryVars   == <<options, attempt, lastError, retryPc, retryResult, events>>
vars        == <<storeVars, schemaVars, timeoutVars, retryVars, io, cmd, proc>>

---------------------------------------------------------------------------
(* Strings *)

MinNameLen == 1
MaxNameLen == 50

(* "x.." stands for a run of LongTokLen letters x *)
LongTokLen == MaxNameLen - 1

Tokens == {"a", "b", " ", ".json", "current", "/", "x.."}

TokLen(t) == CASE t = ".json" -> 5 [] t = "current" -> 7 [] t = "x.." -> LongTokLen [] OTHER -> 1

RECURSIVE StrLen(_)
StrLen(s) == IF s = <<>> THEN 0 ELSE TokLen(Head(s)) + StrLen(Tail(s))

(* String.prototype.endsWith(".json") *)
EndsWithJson(s) == Len(s) >= 1 /\ s[Len(s)] = ".json"

(* String.prototype.replace(".json", ""): removes the FIRST occurrence *)
ReplaceFirstJson(s) ==
    IF \E i \in 1..Len(s) : s[i] = ".json"
    THEN LET i == CHOOSE j \in 1..Len(s) :
                     s[j] = ".json" /\ \A k \in 1..(j - 1) : s[k] # ".json"
         IN  SubSeq(s, 1, i - 1) \o SubSeq(s, i + 1, Len(s))
    ELSE s

(* String.prototype.trim() *)
RECURSIVE trimStart(_)
trimStart(s) == IF s # <<>> /\ Head(s) = " " THEN trimStart(Tail(s)) ELSE s

RECURSIVE trimEnd(_)
trimEnd(s) == IF s # <<>> /\ s[Len(s)] = " " THEN trimEnd(SubSeq(s, 1, Len(s) - 1)) ELSE s

trim(s) == trimEnd(trimStart(s))

---------------------------------------------------------------------------
(* JavaScript values and objects *)

Undefined == [t |-> "undefined", s |-> <<>>]
Null      == [t |-> "null", s |-> <<>>]
Number1   == [t |-> "number", s |-> <<>>]
Str(s)    == [t |-> "string", s |-> s]

Keys == {"name", "description", "extra"}

(* an object in memory: property lookup yields undefined for a missing key *)
Obj(n, d, e) == [k \in Keys |-> CASE k = "name" -> n [] k = "description" -> d [] OTHER -> e]

(* JSON.stringify(obj): properties whose value is undefined are omitted *)
JSONstringify(o) == [k \in {j \in Keys : o[j] # Undefined} |-> o[k]]

(* JSON.parse(text) *)
JSONparse(text) == [k \in Keys |-> IF k \in DOMAIN text THEN text[k] ELSE Undefined]

---------------------------------------------------------------------------
(* AppConfigSchema, configManager.ts:19-27 *)

(* mutation: the upper limit taken as exclusive *)
NameOkExclusiveMax(v) == v.t = "string" /\ StrLen(v.s) >= MinNameLen /\ StrLen(v.s) < MaxNameLen

NameOk(v) == v.t = "string" /\ StrLen(v.s) >= MinNameLen /\ StrLen(v.s) <= MaxNameLen

DescriptionOk(v) == v.t = "string" \/ v.t = "undefined"

AppConfigSchema(o) == NameOk(o["name"]) /\ DescriptionOk(o["description"])

---------------------------------------------------------------------------
(* The file system below configDir.  files maps the name of each regular   *)
(* file directly inside configDir to its text.  The code creates no        *)
(* directory other than configDir itself (ensureConfigDirExists), so no    *)
(* path with more than one segment below configDir names an existing file  *)
(* or an existing parent directory.                                        *)

(* path.join(configDir, f): the segments of f below configDir; empty       *)
(* segments (repeated or leading separators) are dropped by normalisation  *)
RECURSIVE SplitSlash(_, _)
SplitSlash(s, cur) ==
    IF s = <<>>
    THEN IF cur = <<>> THEN <<>> ELSE <<cur>>
    ELSE IF Head(s) = "/"
         THEN (IF cur = <<>> THEN <<>> ELSE <<cur>>) \o SplitSlash(Tail(s), <<>>)
         ELSE SplitSlash(Tail(s), Append(cur, Head(s)))

join(f) == SplitSlash(f, <<>>)

existsSync(fs, p) == Len(p) = 1 /\ p[1] \in DOMAIN fs

(* writeFileSync creates or truncates the file; it throws ENOENT when the  *)
(* parent directory does not exist                                         *)
CanWrite(fs, p) == Len(p) = 1
writeFileSync(fs, p, text) == [f \in DOMAIN fs \cup {p[1]} |-> IF f = p[1] THEN text ELSE fs[f]]

unlinkSync(fs, p) == [f \in DOMAIN fs \ {p[1]} |-> fs[f]]

(* readdirSync: the entries of configDir in an order the code does not control *)
RECURSIVE SetToSeq(_)
SetToSeq(S) == IF S = {} THEN <<>>
               ELSE LET x == CHOOSE y \in S : TRUE IN <<x>> \o SetToSeq(S \ {x})
readdirSync(fs) == SetToSeq(DOMAIN fs)

---------------------------------------------------------------------------
(* FileConfigManager *)

CurrentJson == <<"current", ".json">>
currentConfigFile == join(CurrentJson)

EmptyPointer == JSONstringify(Obj(Str(<<>>), Undefined, Undefined))

getConfigFilePath(name) == join(name \o <<".json">>)

configExists(fs, name) == existsSync(fs, getConfigFilePath(name))

listConfigs(fs) ==
    LET jsonFiles == SelectSeq(readdirSync(fs), LAMBDA f : EndsWithJson(f) /\ f # CurrentJson)
    IN  [i \in 1..Len(jsonFiles) |-> ReplaceFirstJson(jsonFiles[i])]

getConfig(fs, name) ==
    LET filePath == getConfigFilePath(name)
    IN  IF ~existsSync(fs, filePath) THEN Null
        ELSE LET parsed == JSONparse(fs[filePath[1]])
             IN  IF ~AppConfigSchema(parsed) THEN Null ELSE parsed

(* current.name || null; a missing pointer file makes readFileSync throw *)
Falsy(v) == v.t \in {"undefined", "null"} \/ v = Str(<<>>)
getCurrentConfig(fs) ==
    IF ~existsSync(fs, currentConfigFile) THEN Null
    ELSE LET current == JSONparse(fs[currentConfigFile[1]])
         IN  IF Falsy(current["name"]) THEN Null ELSE current["name"]

getCurrentConfigData(fs) ==
    LET currentName == getCurrentConfig(fs)
    IN  IF Falsy(currentName) THEN Null ELSE getConfig(fs, currentName.s)

(* mutation: the record is written before it is validated *)
saveConfigWriteFirst(fs, config) ==
    LET filePath == getConfigFilePath(config["name"].s)
    IN  IF CanWrite(fs, filePath)
        THEN [ret |-> AppConfigSchema(config),
              fs  |-> writeFileSync(fs, filePath, JSONstringify(config))]
        ELSE [ret |-> FALSE, fs |-> fs]

(* each mutating operation yields its return value and the new file system *)
saveConfig(fs, config) ==
    IF ~AppConfigSchema(config) THEN [ret |-> FALSE, fs |-> fs]
    ELSE LET filePath == getConfigFilePath(config["name"].s)
         IN  IF CanWrite(fs, filePath)
             THEN [ret |-> TRUE, fs |-> writeFileSync(fs, filePath, JSONstringify(config))]
             ELSE [ret |-> FALSE, fs |-> fs]

clearCurrentConfig(fs) == writeFileSync(fs, currentConfigFile, EmptyPointer)

deleteConfig(fs, name) ==
    LET filePath == getConfigFilePath(name)
    IN  IF ~existsSync(fs, filePath) THEN [ret |-> FALSE, fs |-> fs]
        ELSE LET fs1 == unlinkSync(fs, filePath)
                 currentConfig == getCurrentConfig(fs1)
             IN  [ret |-> TRUE,
                  fs  |-> IF currentConfig = Str(name) THEN clearCurrentConfig(fs1) ELSE fs1]

setCurrentConfig(fs, name) ==
    IF ~configExists(fs, name) THEN [ret |-> FALSE, fs |-> fs]
    ELSE [ret |-> TRUE,
          fs  |-> writeFileSync(fs, currentConfigFile,
                                JSONstringify(Obj(Str(name), Undefined, Undefined)))]

---------------------------------------------------------------------------
(* Inputs *)

MaxFiles == 3

(* names of 50 and of 51 characters *)
LongName    == <<"x..", "a">>
TooLongName == <<"x..", "a", "b">>

NameInputs ==
    { <<>>, <<"a">>, <<"current">>, <<"a", ".json", "b">>, <<"a", "b", ".json">>,
      <<"/">>, <<"a", "/", "b">>, LongName, TooLongName }

Description == Str(<<"b">>)

ConfigInputs ==
    { Obj(Str(n), Undefined, Undefined) : n \in NameInputs \ {<<"current">>, <<"a", ".json", "b">>} }
      \cup { Obj(Str(n), Description, Number1) :
                 n \in {<<>>, <<"a">>, <<"current">>, <<"a", ".json", "b">>, TooLongName} }
      \cup { Obj(Undefined, Description, Undefined),
             Obj(Number1, Undefined, Undefined),
             Obj(Str(<<"a">>), Number1, Undefined),
             Obj(Str(<<"a">>), Null, Undefined) }

NoConfig == Obj(Undefined, Undefined, Undefined)
EmptyMap == [n \in {} |-> NoConfig]

---------------------------------------------------------------------------
(* The store as a state machine.  last records the latest call and its     *)
(* return value; saved is the history of the records saved successfully    *)
(* under each name and not deleted since.                                  *)

InitStore ==
    /\ files = [f \in {CurrentJson} |-> EmptyPointer]
    /\ last = [op |-> "new", config |-> NoConfig, name |-> <<>>, ret |-> TRUE]
    /\ saved = EmptyMap

SaveConfig ==
    \E config \in ConfigInputs :
        LET r == saveConfig(files, config)
            n == config["name"].s
        IN  /\ Cardinality(DOMAIN r.fs) <= MaxFiles
            /\ files' = r.fs
            /\ last' = [op |-> "saveConfig", config |-> config, name |-> n, ret |-> r.ret]
            /\ saved' = IF r.ret
                        THEN [m \in DOMAIN saved \cup {n} |-> IF m = n THEN config ELSE saved[m]]
                        ELSE saved
            /\ UNCHANGED <<schemaVars, timeoutVars, retryVars, io, cmd, proc>>

DeleteConfig ==
    \E name \in NameInputs :
        LET r == deleteConfig(files, name)
        IN  /\ files' = r.fs
            /\ last' = [op |-> "deleteConfig", config |-> NoConfig, name |-> name, ret |-> r.ret]
            /\ saved' = IF r.ret THEN [m \in DOMAIN saved \ {name} |-> saved[m]] ELSE saved
            /\ UNCHANGED <<schemaVars, timeoutVars, retryVars, io, cmd, proc>>

SetCurrentConfig ==
    \E name \in NameInputs :
        LET r == setCurrentConfig(files, name)
        IN  /\ Cardinality(DOMAIN r.fs) <= MaxFiles
            /\ files' = r.fs
            /\ last' = [op |-> "setCurrentConfig", config |-> NoConfig, name |-> name, ret |-> r.ret]
            /\ saved' = saved
            /\ UNCHANGED <<schemaVars, timeoutVars, retryVars, io, cmd, proc>>


---------------------------------------------------------------------------
(* The store operations when file system calls fail.  fail is the set of   *)
(* calls that throw during the operation; a call also throws for a cause   *)
(* the state itself holds (a missing file, a missing parent directory).    *)
(* A failed call changes no file.  Each operation yields its return value, *)
(* the new file system, the calls that threw, whether the operation itself *)
(* threw, and its Logger calls in order.                                   *)

IOCalls == {"readdirSync", "readFileSync", "writeFileSync", "unlinkSync"}

Log(level, message) == [level |-> level, message |-> message]

Outcome(ret, fs, hit, log) == [ret |-> ret, fs |-> fs, hit |-> hit, threw |-> FALSE, log |-> log]

listConfigsIO(fs, fail) ==
    IF "readdirSync" \in fail
    THEN Outcome(<<>>, fs, {"readdirSync"}, <<Log("error", "Error listing configs:")>>)
    ELSE Outcome(listConfigs(fs), fs, {}, <<>>)

getConfigIO(fs, name, fail) ==
    LET filePath == getConfigFilePath(name)
    IN  IF ~existsSync(fs, filePath)
        THEN Outcome(Null, fs, {}, <<Log("debug", "Config not found")>>)
        ELSE IF "readFileSync" \in fail
        THEN Outcome(Null, fs, {"readFileSync"}, <<Log("error", "Error getting config")>>)
        ELSE LET parsed == JSONparse(fs[filePath[1]])
             IN  IF ~AppConfigSchema(parsed)
                 THEN Outcome(Null, fs, {}, <<Log("error", "Invalid config format")>>)
                 ELSE Outcome(parsed, fs, {}, <<>>)

getCurrentConfigIO(fs, fail) ==
    IF "readFileSync" \in fail \/ ~existsSync(fs, currentConfigFile)
    THEN Outcome(Null, fs, {"readFileSync"}, <<Log("error", "Error getting current config:")>>)
    ELSE Outcome(getCurrentConfig(fs), fs, {}, <<>>)

saveConfigIO(fs, config, fail) ==
    IF ~AppConfigSchema(config)
    THEN Outcome(FALSE, fs, {}, <<Log("error", "Invalid config data:")>>)
    ELSE LET filePath == getConfigFilePath(config["name"].s)
         IN  IF "writeFileSync" \in fail \/ ~CanWrite(fs, filePath)
             THEN Outcome(FALSE, fs, {"writeFileSync"}, <<Log("error", "Error saving config")>>)
             ELSE Outcome(TRUE, writeFileSync(fs, filePath, JSONstringify(config)), {},
                          <<Log("debug", "Config saved")>>)

clearCurrentConfigIO(fs, fail) ==
    IF "writeFileSync" \in fail
    THEN Outcome(FALSE, fs, {"writeFileSync"}, <<Log("error", "Error clearing current config:")>>)
    ELSE Outcome(TRUE, writeFileSync(fs, currentConfigFile, EmptyPointer), {},
                 <<Log("debug", "Current config cleared")>>)

deleteConfigIO(fs, name, fail) ==
    LET filePath == getConfigFilePath(name)
    IN  IF ~existsSync(fs, filePath)
        THEN Outcome(FALSE, fs, {}, <<Log("warn", "Config not found")>>)
        ELSE IF "unlinkSync" \in fail
        THEN Outcome(FALSE, fs, {"unlinkSync"}, <<Log("error", "Error deleting config")>>)
        ELSE LET fs1 == unlinkSync(fs, filePath)
                 currentConfig == getCurrentConfigIO(fs1, fail)
                 deleted == <<Log("debug", "Config deleted")>> \o currentConfig.log
             IN  IF currentConfig.ret = Str(name)
                 THEN LET cleared == clearCurrentConfigIO(fs1, fail)
                      IN  Outcome(TRUE, cleared.fs, currentConfig.hit \cup cleared.hit,
                                  deleted \o cleared.log)
                 ELSE Outcome(TRUE, fs1, currentConfig.hit, deleted)

setCurrentConfigIO(fs, name, fail) ==
    IF ~configExists(fs, name)
    THEN Outcome(FALSE, fs, {}, <<Log("warn", "Config not found")>>)
    ELSE IF "writeFileSync" \in fail
    THEN Outcome(FALSE, fs, {"writeFileSync"}, <<Log("error", "Error setting current config")>>)
    ELSE Outcome(TRUE,
                 writeFileSync(fs, currentConfigFile,
                               JSONstringify(Obj(Str(name), Undefined, Undefined))),
                 {}, <<Log("debug", "Current config set")>>)

(* the store under failing calls, as a state machine; io records the       *)
(* latest call, its name argument and its outcome                          *)

IoNames == {<<>>, <<"a">>, <<"current">>, <<"a", "/", "b">>, TooLongName}

IoConfigs == {Obj(Str(n), Undefined, Undefined) : n \in IoNames} \cup {Obj(Str(<<"a">>), Description, Number1)}

Call(op, name, o) == [op |-> op, name |-> name, ret |-> o.ret, hit |-> o.hit, threw |-> o.threw, log |-> o.log]

InitNoIo == io = [op |-> "new", name |-> <<>>, ret |-> TRUE, hit |-> {}, threw |-> FALSE, log |-> <<>>]

IoListConfigs ==
    /\ \E fail \in SUBSET IOCalls :
          io' = Call("listConfigs", <<>>, listConfigsIO(files, fail))
    /\ UNCHANGED <<storeVars, schemaVars, timeoutVars, retryVars, cmd, proc>>

IoGetConfig ==
    /\ \E name \in IoNames, fail \in SUBSET IOCalls :
          io' = Call("getConfig", name, getConfigIO(files, name, fail))
    /\ UNCHANGED <<storeVars, schemaVars, timeoutVars, retryVars, cmd, proc>>

IoGetCurrentConfig ==
    /\ \E fail \in SUBSET IOCalls :
          io' = Call("getCurrentConfig", <<>>, getCurrentConfigIO(files, fail))
    /\ UNCHANGED <<storeVars, schemaVars, timeoutVars, retryVars, cmd, proc>>

IoSaveConfig ==
    /\ \E config \in IoConfigs, fail \in SUBSET IOCalls :
          LET o == saveConfigIO(files, config, fail)
          IN  /\ Cardinality(DOMAIN o.fs) <= MaxFiles
              /\ files' = o.fs
              /\ io' = Call("saveConfig", config["name"].s, o)
    /\ UNCHANGED <<last, saved, schemaVars, timeoutVars, retryVars, cmd, proc>>

IoDeleteConfig ==
    /\ \E name \in IoNames, fail \in SUBSET IOCalls :
          LET o == deleteConfigIO(files, name, fail)
          IN  /\ files' = o.fs
              /\ io' = Call("deleteConfig", name, o)
    /\ UNCHANGED <<last, saved, schemaVars, timeoutVars, retryVars, cmd, proc>>

IoSetCurrentConfig ==
    /\ \E name \in IoNames, fail \in SUBSET IOCalls :
          LET o == setCurrentConfigIO(files, name, fail)
          IN  /\ Cardinality(DOMAIN o.fs) <= MaxFiles
              /\ files' = o.fs
              /\ io' = Call("setCurrentConfig", name, o)
    /\ UNCHANGED <<last, saved, schemaVars, timeoutVars, retryVars, cmd, proc>>

---------------------------------------------------------------------------
(* The config commands (src/commands/config).  cmd holds one run: the      *)
(* command, its position, its locals, the files at its start and the       *)
(* prompts answered, store calls made and Logger calls made so far.        *)
(* One process runs at a time; between two runs the store may have been    *)
(* used in any way, I/O failures included.                                 *)

Ev(kind, text, name) == [kind |-> kind, text |-> text, name |-> name]

Idle == [run |-> "none", pc |-> "idle", configToDelete |-> <<>>, configs |-> <<>>,
         before |-> << >>, trace |-> <<>>]

InitNoCmd == cmd = Idle

Returns(run, configToDelete, configs, before, trace) ==
    [run |-> run, pc |-> "returned", configToDelete |-> configToDelete, configs |-> configs,
     before |-> before, trace |-> trace]

StoreNames == {<<>>, <<"a">>, <<"b">>, <<"/">>, <<"a", ".json", "b">>}

CmdArgs ==
    {<<>>, <<" ">>, <<"a">>, <<"a", " ">>, <<"b">>, <<"/">>, <<"a", ".json", "b">>, <<"current">>,
     TooLongName}

(* the store used outside the commands, between two runs *)
StoreCall ==
    /\ cmd.pc = "idle"
    /\ \E fail \in {{}, {"writeFileSync"}} :
          \/ \E name \in StoreNames :
                LET o == saveConfigIO(files, Obj(Str(name), Undefined, Undefined), fail)
                IN  Cardinality(DOMAIN o.fs) <= MaxFiles /\ files' = o.fs
          \/ \E name \in StoreNames : files' = deleteConfigIO(files, name, fail).fs
          \/ \E name \in StoreNames :
                LET o == setCurrentConfigIO(files, name, fail)
                IN  Cardinality(DOMAIN o.fs) <= MaxFiles /\ files' = o.fs
    /\ UNCHANGED <<last, saved, schemaVars, timeoutVars, retryVars, io, cmd, proc>>

(* delete.ts: lines 60-77, from the check of configToDelete to the         *)
(* confirmation prompt                                                     *)
verifyConfigToDelete(fs, configs, configToDelete, trace) ==
    IF configToDelete = <<>>
    THEN Returns("delete", configToDelete, configs, fs,
                 trace \o <<Ev("error", "No configuration specified for deletion", <<>>)>>)
    ELSE IF getConfig(fs, configToDelete) = Null
    THEN Returns("delete", configToDelete, configs, fs,
                 trace \o <<Ev("error", "Configuration not found", configToDelete)>>)
    ELSE [run |-> "delete", pc |-> "confirmDeletion", configToDelete |-> configToDelete,
          configs |-> configs, before |-> fs, trace |-> trace]

(* delete.ts: deleteConfig(name?) up to its first await *)
DeleteCommand ==
    /\ cmd.pc = "idle"
    /\ \E name \in {Undefined} \cup {Str(arg) : arg \in CmdArgs} :
          LET configs == listConfigs(files)
              \* name?.trim(); undefined and "" are both falsy
              configToDelete == IF name = Undefined THEN <<>> ELSE trim(name.s)
          IN  cmd' = IF Len(configs) = 0
                     THEN Returns("delete", <<>>, configs, files,
                                  <<Ev("warn", "No configurations to delete", <<>>)>>)
                     ELSE IF configToDelete = <<>>
                     THEN [run |-> "delete", pc |-> "selectConfigToDelete",
                           configToDelete |-> <<>>, configs |-> configs, before |-> files,
                           trace |-> <<>>]
                     ELSE verifyConfigToDelete(files, configs, configToDelete, <<>>)
    /\ UNCHANGED <<storeVars, schemaVars, timeoutVars, retryVars, io, proc>>

(* the list prompt is answered with one of the choices, or is cancelled    *)
(* and throws                                                              *)
SelectConfigToDelete ==
    /\ cmd.pc = "selectConfigToDelete"
    /\ \/ \E i \in 1..Len(cmd.configs) :
             cmd' = verifyConfigToDelete(files, cmd.configs, cmd.configs[i],
                                         cmd.trace \o <<Ev("select", "chosen", cmd.configs[i])>>)
       \/ cmd' = Returns("delete", <<>>, cmd.configs, cmd.before,
                         cmd.trace \o <<Ev("select", "cancelled", <<>>),
                                        Ev("debug", "Operation cancelled", <<>>)>>)
    /\ UNCHANGED <<storeVars, schemaVars, timeoutVars, retryVars, io, proc>>

(* delete.ts: lines 74-94, what follows the answer to the confirmation;    *)
(* yields the new files and the events                                     *)
deleteUnconfirmed(fs, configs, configToDelete, confirmed) ==
    LET r == deleteConfig(fs, configToDelete)
    IN  [fs |-> r.fs, trace |-> <<Ev("store", "deleteConfig", configToDelete)>>]

deleteConfirmed(fs, configs, configToDelete, confirmed) ==
    IF ~confirmed
    THEN [fs |-> fs, trace |-> <<Ev("debug", "Operation cancelled", <<>>)>>]
    ELSE LET r == deleteConfig(fs, configToDelete)
             called == <<Ev("store", "deleteConfig", configToDelete)>>
         IN  IF r.ret
             THEN [fs |-> r.fs,
                   trace |-> called
                       \o <<Ev("info", "Configuration deleted successfully", configToDelete)>>
                       \o (IF getCurrentConfig(r.fs) = Null
                           THEN <<Ev("warn", "No active configuration now", <<>>)>>
                                \o (IF Len(configs) > 1
                                    THEN <<Ev("info", "Use config use <name> to activate another", <<>>)>>
                                    ELSE <<>>)
                           ELSE <<>>)]
             ELSE [fs |-> r.fs,
                   trace |-> called \o <<Ev("error", "Failed to delete configuration", configToDelete)>>]

(* the confirmation prompt is answered yes or no, or is cancelled: then    *)
(* the await throws outside any try block and the command rejects          *)
ConfirmDeletion ==
    /\ cmd.pc = "confirmDeletion"
    /\ \/ \E confirmed \in BOOLEAN :
             LET d == deleteConfirmed(files, cmd.configs, cmd.configToDelete, confirmed)
             IN  /\ files' = d.fs
                 /\ cmd' = Returns("delete", cmd.configToDelete, cmd.configs, cmd.before,
                                   cmd.trace
                                     \o <<Ev("confirm", IF confirmed THEN "yes" ELSE "no",
                                             cmd.configToDelete)>>
                                     \o d.trace)
       \/ /\ cmd' = [cmd EXCEPT !.pc = "rejected",
                                !.trace = @ \o <<Ev("confirm", "cancelled", cmd.configToDelete)>>]
          /\ UNCHANGED files
    /\ UNCHANGED <<last, saved, schemaVars, timeoutVars, retryVars, io, proc>>

(* current.ts: showCurrentConfig(); it has no await.  Yields the position  *)
(* reached and the Logger calls.  Without the test of configData the read  *)
(* of configData.name throws on null.                                      *)
showCurrentConfigUnchecked(fs) ==
    LET currentConfigName == getCurrentConfig(fs)
    IN  IF Falsy(currentConfigName)
        THEN [pc |-> "returned", trace |-> <<Ev("warn", "No active configuration", <<>>)>>]
        ELSE IF getConfig(fs, currentConfigName.s) = Null
        THEN [pc |-> "rejected", trace |-> <<>>]
        ELSE [pc |-> "returned",
              trace |-> <<Ev("info", "Active configuration", currentConfigName.s)>>]

showCurrentConfig(fs) ==
    LET currentConfigName == getCurrentConfig(fs)
    IN  IF Falsy(currentConfigName)
        THEN [pc |-> "returned",
              trace |-> <<Ev("warn", "No active configuration", <<>>),
                          Ev("info", "Use config list to see available configurations", <<>>),
                          Ev("info", "Use config use <name> to activate one", <<>>)>>]
        ELSE LET configData == getConfig(fs, currentConfigName.s)
             IN  IF configData = Null
                 THEN [pc |-> "returned",
                       trace |-> <<Ev("error", "Error: active configuration not found",
                                      currentConfigName.s),
                                   Ev("debug", "exists in current.json but file not found",
                                      currentConfigName.s)>>]
                 ELSE [pc |-> "returned",
                       trace |-> <<Ev("info", "Active configuration", configData["name"].s)>>]

ShowCurrentConfig ==
    /\ cmd.pc = "idle"
    /\ LET r == showCurrentConfig(files)
       IN  cmd' = [run |-> "current", pc |-> r.pc, configToDelete |-> <<>>, configs |-> <<>>,
                   before |-> files, trace |-> r.trace]
    /\ UNCHANGED <<storeVars, schemaVars, timeoutVars, retryVars, io, proc>>

(* create.ts: validateConfigName(input): true, or the message shown when   *)
(* the input is rejected                                                   *)
validateConfigName(fs, input) ==
    LET trimmedInput == trim(input)
    IN  IF trimmedInput = <<>>
        THEN [valid |-> FALSE, message |-> "Configuration name is required"]
        ELSE IF \E i \in 1..Len(listConfigs(fs)) : listConfigs(fs)[i] = trimmedInput
        THEN [valid |-> FALSE, message |-> "A configuration with that name already exists"]
        ELSE [valid |-> TRUE, message |-> ""]

MaxRejected == 1

DescriptionAnswers == {<<>>, <<"b", " ">>}

(* create.ts: createConfig() up to the await of the prompts *)
CreateCommand ==
    /\ cmd.pc = "idle"
    /\ cmd' = [run |-> "create", pc |-> "promptConfigDetails", configToDelete |-> <<>>,
               configs |-> <<>>, before |-> files,
               trace |-> <<Ev("info", "Create new configuration", <<>>)>>]
    /\ UNCHANGED <<storeVars, schemaVars, timeoutVars, retryVars, io, proc>>

(* the name prompt rejects an input and asks again *)
NameRejected ==
    /\ cmd.pc = "promptConfigDetails"
    /\ Cardinality({i \in 1..Len(cmd.trace) : cmd.trace[i].kind = "rejected"}) < MaxRejected
    /\ \E input \in CmdArgs :
          /\ ~validateConfigName(files, input).valid
          /\ cmd' = [cmd EXCEPT !.trace =
                         @ \o <<Ev("rejected", validateConfigName(files, input).message, input)>>]
    /\ UNCHANGED <<storeVars, schemaVars, timeoutVars, retryVars, io, proc>>

(* create.ts: lines 285-313, what follows the answers; yields the new      *)
(* files and the events                                                    *)
createFromAnswers(fs, name, description, setAsCurrent) ==
    LET config == Obj(Str(trim(name)), Str(trim(description)), Undefined)
        s == saveConfig(fs, config)
        called == <<Ev("store", "saveConfig", trim(name))>>
    IN  IF ~s.ret
        THEN [fs |-> s.fs, trace |-> called \o <<Ev("error", "Failed to save configuration", <<>>)>>]
        ELSE LET created == called \o <<Ev("info", "Configuration created successfully", trim(name))>>
             IN  IF setAsCurrent
                 THEN LET a == setCurrentConfig(s.fs, trim(name))
                      IN  [fs |-> a.fs,
                           trace |-> created
                               \o <<Ev("store", "setCurrentConfig", trim(name))>>
                               \o (IF a.ret
                                   THEN <<Ev("info", "Configuration set as active", trim(name))>>
                                   ELSE <<Ev("warn", "Configuration created but failed to set as active", <<>>)>>)]
                 ELSE [fs |-> s.fs, trace |-> created]

(* the prompts are answered: a name the name prompt accepts, a             *)
(* description, and whether to set the new record as active                *)
PromptConfigDetails ==
    /\ cmd.pc = "promptConfigDetails"
    /\ \E name \in CmdArgs, description \in DescriptionAnswers, setAsCurrent \in BOOLEAN :
          /\ validateConfigName(files, name).valid
          /\ LET c == createFromAnswers(files, name, description, setAsCurrent)
             IN  /\ Cardinality(DOMAIN c.fs) <= MaxFiles
                 /\ files' = c.fs
                 /\ cmd' = Returns("create", <<>>, <<>>, cmd.before,
                                   cmd.trace \o <<Ev("accepted", "name", name)>> \o c.trace)
    /\ UNCHANGED <<last, saved, schemaVars, timeoutVars, retryVars, io, proc>>

(* a prompt is cancelled and throws: the catch block logs the error *)
PromptCancelled ==
    /\ cmd.pc = "promptConfigDetails"
    /\ cmd' = Returns("create", <<>>, <<>>, cmd.before,
                      cmd.trace \o <<Ev("error", "Error creating configuration", <<>>)>>)
    /\ UNCHANGED <<storeVars, schemaVars, timeoutVars, retryVars, io, proc>>

(* use.ts: useConfig(name); it has no await.  Yields the new files and    *)
(* the events.  useConfigUnverified leaves out the test of getConfig.      *)
useConfigUnverified(fs, name) ==
    IF trim(name) = <<>>
    THEN [fs |-> fs, trace |-> <<Ev("error", "You must specify a configuration name", <<>>)>>]
    ELSE LET r == setCurrentConfig(fs, name)
         IN  [fs |-> r.fs, trace |-> <<Ev("store", "setCurrentConfig", name)>>]

useConfig(fs, name) ==
    IF trim(name) = <<>>
    THEN [fs |-> fs,
          trace |-> <<Ev("error", "You must specify a configuration name", <<>>),
                      Ev("info", "Usage: config use <name>", <<>>)>>]
    ELSE LET configData == getConfig(fs, name)
         IN  IF configData = Null
             THEN [fs |-> fs,
                   trace |-> <<Ev("error", "Configuration not found", name),
                               Ev("info", "Use config list to see available configurations", <<>>)>>]
             ELSE LET r == setCurrentConfig(fs, name)
                      called == <<Ev("store", "setCurrentConfig", name)>>
                  IN  IF r.ret
                      THEN [fs |-> r.fs,
                            trace |-> called \o <<Ev("info", "Configuration set as active", name)>>]
                      ELSE [fs |-> r.fs,
                            trace |-> called
                                \o <<Ev("error", "Failed to set configuration as active", name)>>]

(* the first event of a use run is its argument *)
UseConfig ==
    /\ cmd.pc = "idle"
    /\ \E name \in CmdArgs :
          LET u == useConfig(files, name)
          IN  /\ Cardinality(DOMAIN u.fs) <= MaxFiles
              /\ files' = u.fs
              /\ cmd' = Returns("use", <<>>, <<>>, files, <<Ev("argument", "name", name)>> \o u.trace)
    /\ UNCHANGED <<last, saved, schemaVars, timeoutVars, retryVars, io, proc>>

(* the process of the run ends; the next run starts from the files left    *)
CommandEnds ==
    /\ cmd.pc \in {"returned", "rejected"}
    /\ cmd' = Idle
    /\ UNCHANGED <<storeVars, schemaVars, timeoutVars, retryVars, io, proc>>

---------------------------------------------------------------------------
(* The node process of one run: the statements of index.ts in order, the   *)
(* event loop after them, and the signals and errors that reach the        *)
(* process.  A signal whose handler is not registered yet terminates the   *)
(* process (default disposition); a registered handler, and the handling   *)
(* of a rejected promise, run only when the event loop runs.               *)

LogLevel == [DEBUG |-> 0, INFO |-> 1, WARN |-> 2, ERROR |-> 3, FATAL |-> 4]

(* ChalkLogger.shouldLog *)
shouldLog(level, logLevel) == level >= logLevel

Line(stream, level, message) == [stream |-> stream, level |-> level, message |-> message]

(* ChalkLogger.fatal: writes to console.error when the level allows it,    *)
(* and returns                                                             *)
fatal(p, message) ==
    [p EXCEPT !.console = IF shouldLog(LogLevel.FATAL, p.logLevel)
                          THEN Append(@, Line("stderr", "FATAL", message)) ELSE @,
              !.fatalCalls = @ + 1]

(* ChalkLogger.info *)
info(p, message) ==
    [p EXCEPT !.console = IF shouldLog(LogLevel.INFO, p.logLevel)
                          THEN Append(@, Line("stdout", "INFO", message)) ELSE @]

Signals == {"SIGINT", "SIGTERM"}

Errors == {"uncaughtException", "unhandledRejection"}

SignalNumber(sig) == IF sig = "SIGINT" THEN 2 ELSE 15

Commands == {"create", "list", "use", "delete", "current"}

(* the commands whose action awaits a prompt *)
Prompting == {"create", "delete"}

Running == [how |-> "running", code |-> 0]

InitProcess ==
    proc = [pc |-> "parse", command |-> "none", logLevel |-> LogLevel.INFO, handlers |-> {},
            pending |-> <<>>, prompt |-> FALSE, received |-> {}, handling |-> "none",
            console |-> <<>>, fatalCalls |-> 0, exit |-> Running]

Alive == proc.exit = Running

procUnchanged == UNCHANGED <<storeVars, schemaVars, timeoutVars, retryVars, io, cmd>>

(* index.ts line 83: program.parse(process.argv) dispatches to the command *)
(* after the preAction hook                                                *)
Parse ==
    /\ Alive /\ proc.pc = "parse"
    /\ \E command \in Commands, verbose \in BOOLEAN :
          proc' = [proc EXCEPT !.pc = "action", !.command = command,
                               !.logLevel = IF verbose THEN LogLevel.DEBUG ELSE @]
    /\ procUnchanged

(* still inside program.parse: the action runs up to its first await, or   *)
(* to its end; an async action that throws yields a rejected promise,      *)
(* which program.parse does not await                                      *)
Action ==
    /\ Alive /\ proc.pc = "action"
    /\ \/ proc' = [proc EXCEPT !.pc = "on"]
       \/ /\ proc.command \in Prompting
          /\ proc' = [proc EXCEPT !.pc = "on", !.prompt = TRUE]
       \/ proc' = [proc EXCEPT !.pc = "on", !.pending = Append(@, "unhandledRejection"),
                               !.received = @ \cup {"unhandledRejection"}]
    /\ procUnchanged

(* an exception thrown synchronously out of program.parse, before any      *)
(* handler is registered: node prints it and exits with code 1             *)
ParseThrows ==
    /\ Alive /\ proc.pc = "action"
    /\ proc' = [proc EXCEPT !.received = @ \cup {"uncaughtException"},
                            !.console = Append(@, Line("stderr", "node", "Uncaught exception")),
                            !.exit = [how |-> "exit", code |-> 1]]
    /\ procUnchanged

(* index.ts lines 86-105: the four process.on calls, in order *)
RegistrationOrder == <<"SIGINT", "SIGTERM", "uncaughtException", "unhandledRejection">>

ProcessOn ==
    /\ Alive /\ proc.pc = "on"
    /\ LET next == Cardinality(proc.handlers) + 1
       IN  proc' = [proc EXCEPT !.handlers = @ \cup {RegistrationOrder[next]},
                                !.pc = IF next = Len(RegistrationOrder) THEN "loop" ELSE "on"]
    /\ procUnchanged

(* a signal is sent to the process, at any point of the run *)
Signal ==
    /\ Alive /\ proc.pc # "parse"
    /\ proc.received \cap Signals = {}
    /\ \E sig \in Signals :
          proc' = IF sig \in proc.handlers
                  THEN [proc EXCEPT !.received = @ \cup {sig}, !.pending = Append(@, sig)]
                  ELSE [proc EXCEPT !.received = @ \cup {sig},
                                    !.exit = [how |-> "signal", code |-> 128 + SignalNumber(sig)]]
    /\ procUnchanged

(* the awaited prompt settles: the action goes on to its end, or rejects   *)
(* (delete.ts line 73 is outside any try block)                            *)
PromptSettles ==
    /\ Alive /\ proc.pc = "loop" /\ proc.prompt /\ proc.pending = <<>>
    /\ \/ proc' = [proc EXCEPT !.prompt = FALSE]
       \/ /\ proc.command = "delete"
          /\ proc' = [proc EXCEPT !.prompt = FALSE, !.pending = Append(@, "unhandledRejection"),
                                  !.received = @ \cup {"unhandledRejection"}]
    /\ procUnchanged

(* a callback run by the event loop throws while the prompt is open *)
CallbackThrows ==
    /\ Alive /\ proc.pc = "loop" /\ proc.prompt /\ proc.pending = <<>>
    /\ proc' = [proc EXCEPT !.pending = Append(@, "uncaughtException"),
                            !.received = @ \cup {"uncaughtException"}]
    /\ procUnchanged

(* the event loop runs the handler of the oldest pending event: its first  *)
(* statement is the Logger call                                            *)
HandlerLogs ==
    /\ Alive /\ proc.pc = "loop" /\ proc.pending # <<>>
    /\ LET e == Head(proc.pending)
           p == [proc EXCEPT !.pc = "handler", !.handling = e, !.pending = Tail(@)]
       IN  proc' = IF e \in Signals
                   THEN info(p, "Received signal, shutting down gracefully...")
                   ELSE fatal(p, IF e = "uncaughtException" THEN "Uncaught exception:"
                                                             ELSE "Unhandled rejection:")
    /\ procUnchanged

(* the handler's second statement: process.exit(0) or process.exit(1) *)
HandlerExits ==
    /\ Alive /\ proc.pc = "handler"
    /\ proc' = [proc EXCEPT !.exit = [how |-> "exit",
                                      code |-> IF proc.handling \in Signals THEN 0 ELSE 1]]
    /\ procUnchanged

(* nothing is left to do: node exits with code 0 *)
LoopEmpties ==
    /\ Alive /\ proc.pc = "loop" /\ ~proc.prompt /\ proc.pending = <<>>
    /\ proc' = [proc EXCEPT !.exit = [how |-> "exit", code |-> 0]]
    /\ procUnchanged

---------------------------------------------------------------------------
(* AppConfigSchema.safeParse applied to one object *)

MaxNameToks == 3

SchemaTokens == {"a", "x..", ".json"}

SchemaNames == UNION {[1..n -> SchemaTokens] : n \in 0..MaxNameToks}

SchemaInputs ==
    { Obj(n, d, e) :
        n \in {Undefined, Null, Number1} \cup {Str(x) : x \in SchemaNames},
        d \in {Undefined, Null, Number1, Str(<<>>), Description},
        e \in {Undefined, Number1} }

InitNoSchema ==
    /\ schemaIn = NoConfig
    /\ schemaOut = "unparsed"

safeParse(o) == IF AppConfigSchema(o) THEN "success" ELSE "failure"

SafeParse ==
    /\ schemaOut = "unparsed"
    /\ schemaOut' = safeParse(schemaIn)
    /\ UNCHANGED <<schemaIn, storeVars, timeoutVars, retryVars, io, cmd, proc>>

---------------------------------------------------------------------------
(* withTimeout, timeout.ts:17-31.  A promise is pending, fulfilled with a  *)
(* value or rejected with a reason.  Reactions to a settled promise run as *)
(* jobs of the microtask queue, in the order they were enqueued; a timer   *)
(* callback is a task of its own and starts only when that queue is empty  *)
(* and the timer's delay has elapsed.                                      *)

MaxTime == 2

Pending      == [st |-> "pending", val |-> "-"]
Fulfilled(v) == [st |-> "fulfilled", val |-> v]
Rejected(e)  == [st |-> "rejected", val |-> e]

OperationOutcomes == {Fulfilled("success"), Rejected("operation failed")}

DefaultTimeoutError == "Operation timed out"
TimeoutErrorArgs == {"undefined", "Custom timeout"}

(* the default parameter value applies when the argument is undefined *)
timeoutErrorParam(arg) == IF arg = "undefined" THEN DefaultTimeoutError ELSE arg

(* mutation: the last input to settle overrides the earlier one *)
raceSettleLast(r, outcome) == outcome

(* Promise.race settles with the first of its inputs to settle *)
raceSettle(r, outcome) == IF r.st = "pending" THEN outcome ELSE r

(* mutation: the finally callback leaves the timer armed *)
clearTimeoutForgotten(t) == t

clearTimeout(t) == IF t = "armed" THEN "cleared" ELSE t

InitNoTimeout ==
    /\ promise = Pending
    /\ ms = 0
    /\ timeoutError = "undefined"
    /\ timeoutId = "unset"
    /\ timeoutPromise = Pending
    /\ race = Pending
    /\ result = Pending
    /\ jobs = <<>>
    /\ now = 0
    /\ deadline = 0
    /\ first = "none"

(* time passes before or after the call *)
Tick ==
    /\ now < MaxTime
    /\ jobs = <<>>
    /\ now' = now + 1
    /\ UNCHANGED <<promise, ms, timeoutError, timeoutId, timeoutPromise, race, result,
                   jobs, deadline, first, storeVars, schemaVars, retryVars, io, cmd, proc>>

(* the call withTimeout(p, d, e): arms the timer and subscribes the race   *)
(* to p and to timeoutPromise; a p that is settled already has its         *)
(* reaction enqueued at once                                               *)
WithTimeout ==
    /\ timeoutId = "unset"
    /\ \E p \in {Pending} \cup OperationOutcomes, d \in 0..MaxTime, e \in TimeoutErrorArgs :
          /\ promise' = p
          /\ ms' = d
          /\ timeoutError' = e
          /\ deadline' = now + d
          /\ jobs' = IF p.st = "pending" THEN <<>> ELSE <<[job |-> "race", outcome |-> p]>>
          /\ first' = IF p.st = "pending" THEN "none" ELSE "operation"
    /\ timeoutId' = "armed"
    /\ UNCHANGED <<timeoutPromise, race, result, now, storeVars, schemaVars, retryVars, io, cmd, proc>>

(* the wrapped operation settles *)
OperationSettles ==
    /\ timeoutId # "unset"
    /\ promise.st = "pending"
    /\ \E o \in OperationOutcomes :
          /\ promise' = o
          /\ jobs' = Append(jobs, [job |-> "race", outcome |-> o])
    /\ first' = IF first = "none" THEN "operation" ELSE first
    /\ UNCHANGED <<ms, timeoutError, timeoutId, timeoutPromise, race, result, now, deadline,
                   storeVars, schemaVars, retryVars, io, cmd, proc>>

(* the timer callback: reject(timeoutError) *)
TimerFires ==
    /\ timeoutId = "armed"
    /\ now >= deadline
    /\ jobs = <<>>
    /\ timeoutId' = "fired"
    /\ timeoutPromise' = Rejected(timeoutErrorParam(timeoutError))
    /\ jobs' = Append(jobs, [job |-> "race", outcome |-> Rejected(timeoutErrorParam(timeoutError))])
    /\ first' = IF first = "none" THEN "timer" ELSE first
    /\ UNCHANGED <<promise, ms, timeoutError, race, result, now, deadline, storeVars, schemaVars, retryVars, io, cmd, proc>>

(* the next job of the microtask queue: a reaction of the race to one of   *)
(* its inputs, or the finally callback followed by the settlement of the   *)
(* returned promise                                                        *)
RunJob ==
    /\ jobs # <<>>
    /\ LET j == Head(jobs)
       IN  IF j.job = "race"
           THEN /\ race' = raceSettle(race, j.outcome)
                /\ jobs' = IF race.st = "pending"
                           THEN Append(Tail(jobs), [job |-> "finally", outcome |-> j.outcome])
                           ELSE Tail(jobs)
                /\ UNCHANGED <<timeoutId, result>>
           ELSE /\ timeoutId' = clearTimeout(timeoutId)
                /\ result' = race
                /\ jobs' = Tail(jobs)
                /\ UNCHANGED race
    /\ UNCHANGED <<promise, ms, timeoutError, timeoutPromise, now, deadline, first,
                   storeVars, schemaVars, retryVars, io, cmd, proc>>

---------------------------------------------------------------------------
(* retry, timeout.ts:60-94.  The k-th invocation of fn either fulfils with *)
(* the value k or rejects with the error k, so that values and errors of   *)
(* different attempts are told apart; 0 stands for undefined.  events is   *)
(* the history of what retry did, in order.                                *)

MaxAttemptsArg == 3

DefaultMaxAttempts == 3
DefaultBaseDelay == 1000
DefaultMaxDelay == 10000

UndefinedValue == 0

RetryPending      == [st |-> "pending", val |-> UndefinedValue]
RetryFulfilled(v) == [st |-> "fulfilled", val |-> v]
RetryRejected(e)  == [st |-> "rejected", val |-> e]

(* the options object: any of its properties may be missing *)
OptionValues(k) ==
    CASE k = "maxAttempts" -> (-1)..MaxAttemptsArg
      [] k = "baseDelay"   -> {0, 10}
      [] k = "maxDelay"    -> {15}
      [] OTHER             -> {1}

OptionKeys == {"maxAttempts", "baseDelay", "maxDelay", "onRetry"}

RetryOptions ==
    UNION { {o \in [K -> UNION {OptionValues(k) : k \in OptionKeys}] :
                \A k \in K : o[k] \in OptionValues(k)} : K \in SUBSET OptionKeys }

(* const { maxAttempts = 3, baseDelay = 1000, maxDelay = 10000, onRetry } = options *)
maxAttempts == IF "maxAttempts" \in DOMAIN options THEN options["maxAttempts"] ELSE DefaultMaxAttempts
baseDelay   == IF "baseDelay" \in DOMAIN options THEN options["baseDelay"] ELSE DefaultBaseDelay
maxDelay    == IF "maxDelay" \in DOMAIN options THEN options["maxDelay"] ELSE DefaultMaxDelay
onRetry     == "onRetry" \in DOMAIN options

RECURSIVE Pow2(_)
Pow2(n) == IF n <= 0 THEN 1 ELSE 2 * Pow2(n - 1)

MathMin(a, b) == IF a <= b THEN a ELSE b

(* mutation: the exponent is the attempt number *)
delayMsExponentOff(att, base, max) == MathMin(base * Pow2(att), max)

(* Math.min(baseDelay * 2 ** (attempt - 1), maxDelay) *)
delayMs(att, base, max) == MathMin(base * Pow2(att - 1), max)

Event(e, n, x) == [e |-> e, n |-> n, x |-> x]

EventsOf(kind) == SelectSeq(events, LAMBDA ev : ev.e = kind)

FnCalls == Len(EventsOf("fn"))

InitNoRetry ==
    /\ options = [k \in {} |-> 0]
    /\ attempt = 0
    /\ lastError = UndefinedValue
    /\ retryPc = "idle"
    /\ retryResult = RetryPending
    /\ events = <<>>

(* the call retry(fn, options), up to the first test of the loop *)
Retry ==
    /\ retryPc = "idle"
    /\ options' \in RetryOptions
    /\ attempt' = 1
    /\ retryPc' = "loop"
    /\ UNCHANGED <<lastError, retryResult, events, storeVars, schemaVars, timeoutVars, io, cmd, proc>>

(* attempt <= maxAttempts: fn is invoked and awaited *)
CallFn ==
    /\ retryPc = "loop"
    /\ attempt <= maxAttempts
    /\ events' = Append(events, Event("fn", attempt, 0))
    /\ retryPc' = "await"
    /\ UNCHANGED <<options, attempt, lastError, retryResult, storeVars, schemaVars, timeoutVars, io, cmd, proc>>

(* mutation: the value is kept but the loop goes on with the next attempt *)
FnFulfilsAndGoesOn ==
    /\ retryPc = "await"
    /\ events' = Append(events, Event("fulfilled", attempt, FnCalls))
    /\ retryResult' = RetryFulfilled(FnCalls)
    /\ attempt' = attempt + 1
    /\ retryPc' = "loop"
    /\ UNCHANGED <<options, lastError, storeVars, schemaVars, timeoutVars, io, cmd, proc>>

(* return await fn() *)
FnFulfils ==
    /\ retryPc = "await"
    /\ events' = Append(events, Event("fulfilled", attempt, FnCalls))
    /\ retryResult' = RetryFulfilled(FnCalls)
    /\ retryPc' = "done"
    /\ UNCHANGED <<options, attempt, lastError, storeVars, schemaVars, timeoutVars, io, cmd, proc>>

(* mutation: onRetry is called before the test of the last attempt *)
catchBlockOnRetryFirst(error) ==
    LET failed == Append(events, Event("rejected", attempt, error))
        called == IF onRetry THEN Append(failed, Event("onRetry", attempt, error)) ELSE failed
    IN  IF attempt = maxAttempts
        THEN [pc |-> "break", events |-> called]
        ELSE [pc |-> "delay",
              events |-> called \o <<Event("delay", attempt, delayMs(attempt, baseDelay, maxDelay))>>]

(* the catch block, up to break or to the start of the delay *)
catchBlock(error) ==
    LET failed == Append(events, Event("rejected", attempt, error))
    IN  IF attempt = maxAttempts
        THEN [pc |-> "break", events |-> failed]
        ELSE [pc |-> "delay",
              events |-> (IF onRetry THEN Append(failed, Event("onRetry", attempt, error)) ELSE failed)
                            \o <<Event("delay", attempt, delayMs(attempt, baseDelay, maxDelay))>>]

(* mutation: only the first error is kept *)
keepFirstError(previous, error) == IF previous = UndefinedValue THEN error ELSE previous

(* lastError = error *)
assignLastError(previous, error) == error

FnRejects ==
    /\ retryPc = "await"
    /\ lastError' = assignLastError(lastError, FnCalls)
    /\ events' = catchBlock(FnCalls).events
    /\ retryPc' = catchBlock(FnCalls).pc
    /\ UNCHANGED <<options, attempt, retryResult, storeVars, schemaVars, timeoutVars, io, cmd, proc>>

(* await delay(delayMs) completes; attempt++ *)
DelayElapses ==
    /\ retryPc = "delay"
    /\ events' = Append(events, Event("elapsed", attempt, 0))
    /\ attempt' = attempt + 1
    /\ retryPc' = "loop"
    /\ UNCHANGED <<options, lastError, retryResult, storeVars, schemaVars, timeoutVars, io, cmd, proc>>

(* throw lastError, after break or after the loop test has failed *)
ThrowLastError ==
    /\ \/ retryPc = "break"
       \/ retryPc = "loop" /\ ~(attempt <= maxAttempts)
    /\ retryResult' = RetryRejected(lastError)
    /\ retryPc' = "done"
    /\ UNCHANGED <<options, attempt, lastError, events, storeVars, schemaVars, timeoutVars, io, cmd, proc>>

---------------------------------------------------------------------------
(* Specifications *)

Init == InitStore /\ InitNoSchema /\ InitNoTimeout /\ InitNoRetry /\ InitNoIo /\ InitNoCmd /\ InitProcess

Next == SaveConfig \/ DeleteConfig \/ SetCurrentConfig

Spec == Init /\ [][Next]_vars

InitSchema ==
    /\ InitStore
    /\ InitNoTimeout
    /\ InitNoRetry
    /\ InitNoIo
    /\ InitNoCmd
    /\ InitProcess
    /\ schemaIn \in SchemaInputs
    /\ schemaOut = "unparsed"

NextSchema == SafeParse

SpecSchema == InitSchema /\ [][NextSchema]_vars

NextTimeout == Tick \/ WithTimeout \/ OperationSettles \/ TimerFires \/ RunJob

SpecTimeout == Init /\ [][NextTimeout]_vars

NextRetry == Retry \/ CallFn \/ FnFulfils \/ FnRejects \/ DelayElapses \/ ThrowLastError

SpecRetry == Init /\ [][NextRetry]_vars

NextIo ==
    \/ IoListConfigs \/ IoGetConfig \/ IoGetCurrentConfig
    \/ IoSaveConfig \/ IoDeleteConfig \/ IoSetCurrentConfig

SpecIo == Init /\ [][NextIo]_vars

NextCommands ==
    \/ StoreCall
    \/ DeleteCommand \/ SelectConfigToDelete \/ ConfirmDeletion
    \/ ShowCurrentConfig
    \/ CreateCommand \/ NameRejected \/ PromptConfigDetails \/ PromptCancelled
    \/ UseConfig
    \/ CommandEnds

SpecCommands == Init /\ [][NextCommands]_vars

NextProcess ==
    \/ Parse \/ Action \/ ParseThrows \/ ProcessOn
    \/ Signal \/ PromptSettles \/ CallbackThrows
    \/ HandlerLogs \/ HandlerExits \/ LoopEmpties

SpecProcess == Init /\ [][NextProcess]_vars

---------------------------------------------------------------------------
(* Vocabulary of the properties *)

Range(q) == {q[i] : i \in DOMAIN q}

(* "a record named n exists": getConfig(n) returns a record *)
RecordExists(fs, n) == getConfig(fs, n) # Null

(* the validation rule as the specification words it: a name of 1 to 50    *)
(* characters, a description that is absent or a string                    *)
PassesValidation(o) ==
    /\ o["name"].t = "string"
    /\ StrLen(o["name"].s) >= 1
    /\ StrLen(o["name"].s) <= 50
    /\ o["description"].t \in {"undefined", "string"}

PointerFileHoldsEmptyName(fs) ==
    /\ CurrentJson \in DOMAIN fs
    /\ JSONparse(fs[CurrentJson])["name"] = Str(<<>>)

---------------------------------------------------------------------------
(* Properties of the configuration store *)

(* C1: for every record r that passes validation, in any reachable store   *)
(* state, saveConfig(r) returns true and getConfig(r.name) called right    *)
(* after it returns a record equal to r.                                   *)
C1_SaveThenGetReturnsEqual ==
    (last.op = "saveConfig" /\ PassesValidation(last.config))
        => (last.ret = TRUE /\ getConfig(files, last.name) = last.config)

(* C2: when getCurrentConfig() returns n and a record n exists, then after *)
(* deleteConfig(n) has returned true getCurrentConfig() returns null, the  *)
(* pointer file holds the empty name, and getConfig(n) returns null.       *)
C2_DeleteActiveClearsPointer ==
    [][(/\ last'.op = "deleteConfig"
        /\ last'.ret = TRUE
        /\ getCurrentConfig(files) = Str(last'.name)
        /\ RecordExists(files, last'.name))
          => (/\ getCurrentConfig(files') = Null
              /\ PointerFileHoldsEmptyName(files')
              /\ getConfig(files', last'.name) = Null)]_storeVars

(* C3: from a freshly initialised store, after any sequence of saveConfig, *)
(* deleteConfig and setCurrentConfig calls, whenever getCurrentConfig()    *)
(* returns a name n, n is in listConfigs() and getConfig(n) returns a      *)
(* record.                                                                 *)
C3_PointerReferencesExistingRecord ==
    getCurrentConfig(files) # Null
        => (/\ getCurrentConfig(files).s \in Range(listConfigs(files))
            /\ getConfig(files, getCurrentConfig(files).s) # Null)

(* C4: listConfigs() never contains the same name twice.                   *)
C4_ListedNamesUnique ==
    \A i, j \in DOMAIN listConfigs(files) :
        listConfigs(files)[i] = listConfigs(files)[j] => i = j

(* C5: listConfigs() is exactly the set of names saved successfully and    *)
(* not deleted since: n is listed if and only if configExists(n) and       *)
(* getConfig(n) returns the record saved under n.                          *)
C5_ListIsExactlyTheSavedNames ==
    /\ Range(listConfigs(files)) = DOMAIN saved
    /\ \A n \in NameInputs \cup Range(listConfigs(files)) :
           n \in Range(listConfigs(files))
              <=> (/\ configExists(files, n)
                   /\ n \in DOMAIN saved
                   /\ getConfig(files, n) = saved[n])

(* C7: for every record that fails validation saveConfig returns false and *)
(* leaves every file of the store, the pointer file included, as it was.   *)
C7_InvalidSaveChangesNothing ==
    [][(last'.op = "saveConfig" /\ ~PassesValidation(last'.config))
          => (last'.ret = FALSE /\ files' = files)]_storeVars

C7_Witness ==
    /\ last.op = "saveConfig"
    /\ ~PassesValidation(last.config)
    /\ last.ret = FALSE
    /\ \E n \in NameInputs : RecordExists(files, n)
    /\ getCurrentConfig(files) # Null

(* C8: setCurrentConfig(name) returns true and makes getCurrentConfig()    *)
(* return name when a record named name exists; when no such record exists *)
(* it returns false and the active pointer keeps its previous value.       *)
C8_SetCurrentOkOrNotFound ==
    [][last'.op = "setCurrentConfig"
          => IF RecordExists(files, last'.name)
             THEN last'.ret = TRUE /\ getCurrentConfig(files') = Str(last'.name)
             ELSE last'.ret = FALSE /\ getCurrentConfig(files') = getCurrentConfig(files)]_storeVars

(* C9: deleteConfig(name) for a name with no record returns false, and     *)
(* whenever deleteConfig returns false all files of the store, the pointer *)
(* file included, are the same as before the call.                         *)
C9_DeleteAbsentChangesNothing ==
    [][last'.op = "deleteConfig"
          => (/\ ~RecordExists(files, last'.name) => last'.ret = FALSE
              /\ last'.ret = FALSE => files' = files)]_storeVars

---------------------------------------------------------------------------
(* Properties of AppConfigSchema *)

---------------------------------------------------------------------------
(* Properties of withTimeout *)

(* C10: once the reactions have run, withTimeout has settled with the      *)
(* outcome of the wrapped promise (its value or its rejection reason) if   *)
(* the promise settled before the timer fired, and has rejected with       *)
(* exactly the supplied error (by default "Operation timed out") if the    *)
(* timer fired first.                                                      *)
C10_WithTimeoutFirstSettlerWins ==
    /\ result.st # "pending" => first # "none"
    /\ (first = "operation" /\ (jobs = <<>> \/ result.st # "pending")) => result = promise
    /\ (first = "timer" /\ (jobs = <<>> \/ result.st # "pending"))
          => result = Rejected(IF timeoutError = "undefined"
                               THEN "Operation timed out" ELSE timeoutError)

C10_Witness ==
    /\ first = "timer"
    /\ promise.st = "fulfilled"
    /\ timeoutError = "Custom timeout"
    /\ result = Rejected("Custom timeout")

---------------------------------------------------------------------------
(* Properties of retry *)

OnRetryCalls == EventsOf("onRetry")
Delays       == EventsOf("delay")

(* C11: for every maxAttempts and every pattern of failures of fn, by the  *)
(* time retry settles onRetry has been invoked exactly (number of          *)
(* invocations of fn) - 1 times, with the arguments 1, 2, ... in           *)
(* increasing order.                                                       *)
C11_OnRetryCalledOncePerRetry ==
    (retryPc = "done" /\ onRetry)
        => /\ Len(OnRetryCalls) = FnCalls - 1
           /\ \A i \in 1..Len(OnRetryCalls) : OnRetryCalls[i].n = i

(* C12: the delay after the n-th failed attempt is                         *)
(* min(baseDelay * 2^(n-1), maxDelay); every delay is at most maxDelay,    *)
(* the delays never decrease, and with the default options they are 1000   *)
(* and then 2000.                                                          *)
C12_DelaysFollowCappedBackoff ==
    /\ \A i \in 1..Len(Delays) :
          /\ Delays[i].n = i
          /\ Delays[i].x = MathMin(baseDelay * Pow2(i - 1), maxDelay)
          /\ Delays[i].x <= maxDelay
          /\ i > 1 => Delays[i - 1].x <= Delays[i].x
    /\ (options = [k \in {} |-> 0] /\ retryPc # "idle")
          => /\ Len(Delays) <= 2
             /\ Len(Delays) >= 1 => Delays[1].x = 1000
             /\ Len(Delays) >= 2 => Delays[2].x = 2000
             /\ retryResult.st = "rejected" => Len(Delays) = 2

C12_Witness ==
    /\ Len(Delays) = 2
    /\ Delays[1].x = 10
    /\ Delays[2].x = 15
    /\ baseDelay * 2 > maxDelay

(* C13: when fn has failed on every one of the maxAttempts attempts, retry *)
(* rejects with the error thrown by the last, maxAttempts-th, attempt and  *)
(* fn has been invoked exactly maxAttempts times.                          *)
C13_RejectsWithLastError ==
    (retryPc = "done" /\ Len(EventsOf("rejected")) >= 1 /\ retryResult.st = "rejected")
        => /\ FnCalls = maxAttempts
           /\ Len(EventsOf("rejected")) = maxAttempts
           /\ retryResult.val = EventsOf("rejected")[maxAttempts].x
           /\ EventsOf("rejected")[maxAttempts].n = maxAttempts

C13_Witness ==
    /\ retryPc = "done"
    /\ maxAttempts = 3
    /\ Len(EventsOf("rejected")) = 3
    /\ retryResult = RetryRejected(3)

(* C14: retry stops at the first successful attempt: when fn first         *)
(* succeeds on attempt k <= maxAttempts, retry resolves with the value of  *)
(* that attempt, fn has been invoked exactly k times, and it is not        *)
(* invoked again afterwards.                                               *)
C14_StopsAtFirstSuccess ==
    /\ [](Len(EventsOf("fulfilled")) >= 1
            => LET k == EventsOf("fulfilled")[1].n
               IN  /\ k >= 1 /\ k <= maxAttempts
                   /\ retryResult = RetryFulfilled(EventsOf("fulfilled")[1].x)
                   /\ EventsOf("fn")[k].n = k
                   /\ FnCalls = k
                   /\ Len(EventsOf("rejected")) = k - 1
                   /\ Len(EventsOf("fulfilled")) = 1)
    /\ [][Len(EventsOf("fulfilled")) >= 1 => events' = events]_vars

C14_Witness ==
    /\ retryResult = RetryFulfilled(3)
    /\ FnCalls = 3
    /\ Len(EventsOf("rejected")) = 2

---------------------------------------------------------------------------
(* Properties of the store under I/O failures *)

ErrorLogged(log) == \E i \in 1..Len(log) : log[i].level = "error"

(* C19: no store operation throws on an I/O failure: when a file read,     *)
(* write, unlink or the directory listing fails, the error is logged and   *)
(* listConfigs returns [], getConfig and getCurrentConfig return null,     *)
(* saveConfig, deleteConfig and setCurrentConfig return false.             *)
C19_IoFailureGivesFailureValue ==
    io.hit # {}
        => /\ ~io.threw
           /\ ErrorLogged(io.log)
           /\ (io.op = "listConfigs" => io.ret = <<>>)
           /\ (io.op \in {"getConfig", "getCurrentConfig"} => io.ret = Null)
           /\ (io.op \in {"saveConfig", "deleteConfig", "setCurrentConfig"} => io.ret = FALSE)

---------------------------------------------------------------------------
(* Properties of the config commands *)

(* C15: in every run of the delete command the store's deleteConfig is     *)
(* invoked only after the confirmation prompt for that same name was       *)
(* answered yes; if the selection prompt is cancelled or the confirmation  *)
(* is answered no, no record is deleted and the active pointer is          *)
(* unchanged (the files are those of the start of the run).                *)
C15_DeleteOnlyAfterYes ==
    cmd.run = "delete"
        => /\ \A i \in 1..Len(cmd.trace) :
                 cmd.trace[i].kind = "store"
                     => \E j \in 1..(i - 1) :
                           cmd.trace[j] = Ev("confirm", "yes", cmd.trace[i].name)
           /\ (\E i \in 1..Len(cmd.trace) :
                  cmd.trace[i] \in {Ev("select", "cancelled", <<>>),
                                    Ev("confirm", "no", cmd.configToDelete)})
                 => files = cmd.before

C15_Witness ==
    /\ cmd.run = "delete" /\ cmd.pc = "returned"
    /\ \E i \in 1..Len(cmd.trace) : cmd.trace[i] = Ev("select", "chosen", <<"a">>)
    /\ \E i \in 1..Len(cmd.trace) : cmd.trace[i] = Ev("store", "deleteConfig", <<"a">>)
    /\ files # cmd.before

(* the active pointer names a record that does not exist *)
Dangling(fs) == getCurrentConfig(fs) # Null /\ ~RecordExists(fs, getCurrentConfig(fs).s)

(* C16: when the active pointer names a record that does not exist, the    *)
(* current command reports an error and returns normally, without throwing *)
(* and without modifying the pointer or any record.                        *)
C16_CurrentToleratesDanglingPointer ==
    (cmd.run = "current" /\ Dangling(cmd.before))
        => /\ cmd.pc = "returned"
           /\ \E i \in 1..Len(cmd.trace) :
                 cmd.trace[i].kind = "error" /\ cmd.trace[i].name = getCurrentConfig(cmd.before).s
           /\ files = cmd.before

C16_Witness ==
    /\ cmd.run = "current" /\ cmd.pc = "returned"
    /\ Dangling(cmd.before)
    /\ getCurrentConfig(files) = Str(<<"a">>)

(* the names a record can be asked for *)
RecordNames == StoreNames \cup {trim(arg) : arg \in CmdArgs} \cup {<<"a", "b", ".json">>}

(* C20: the create command never overwrites an existing record: the name   *)
(* prompt accepts no empty name and no (trimmed) name for which a record   *)
(* already exists, and after a create run every record that existed before *)
(* still has its previous contents.                                        *)
C20_CreateNeverOverwrites ==
    cmd.run = "create"
        => /\ \A i \in 1..Len(cmd.trace) :
                 cmd.trace[i].kind = "accepted"
                     => /\ trim(cmd.trace[i].name) # <<>>
                        /\ ~RecordExists(cmd.before, trim(cmd.trace[i].name))
           /\ \A n \in RecordNames :
                 RecordExists(cmd.before, n) => getConfig(files, n) = getConfig(cmd.before, n)

---------------------------------------------------------------------------
(* Properties of the process *)

(* C17: the process exits with code 0 when it receives SIGINT or SIGTERM   *)
(* at any point of a command's execution, and exits with a non-zero code   *)
(* on any uncaught exception or unhandled promise rejection raised at any  *)
(* point of a command's execution.                                         *)
C17_ExitCodes ==
    ~Alive
        => /\ (proc.received \cap Signals # {} /\ proc.received \cap Errors = {})
                 => (proc.exit.how = "exit" /\ proc.exit.code = 0)
           /\ (proc.received \cap Errors # {} /\ proc.received \cap Signals = {})
                 => (proc.exit.how = "exit" /\ proc.exit.code # 0)

(* C18: Logger.fatal writes the message to the error console and then      *)
(* exits the process: after a call to Logger.fatal no further statement of *)
(* the caller runs.                                                        *)
C18_FatalExits ==
    /\ [](proc.fatalCalls > 0
            => /\ \E i \in 1..Len(proc.console) :
                     proc.console[i].stream = "stderr" /\ proc.console[i].level = "FATAL"
               /\ proc.exit.how = "exit")
    /\ [][proc.fatalCalls > 0 => proc' = proc]_vars

---------------------------------------------------------------------------
(* Order of the events of retry, and origin of its outcome *)

(* the event at position i of the history, or none *)
EventAt(i) == IF i \in 1..Len(events) THEN events[i] ELSE Event("none", 0, 0)

(* C24: within retry, after the n-th failed attempt (n < maxAttempts)      *)
(* onRetry(n, error) is invoked (when given) with that attempt's error,    *)
(* then the n-th delay elapses, then attempt n+1 starts; after the final   *)
(* failed attempt neither onRetry nor a delay occurs before retry rejects. *)
C24_RetryEventsOrdered ==
    \A i \in 1..Len(events) :
        events[i].e = "rejected"
            => LET n == events[i].n
                   d == IF onRetry THEN i + 2 ELSE i + 1
               IN  IF n < maxAttempts
                   THEN /\ onRetry => events[i + 1] = Event("onRetry", n, events[i].x)
                        /\ events[d].e = "delay" /\ events[d].n = n
                        /\ EventAt(d + 1) \in {Event("none", 0, 0), Event("elapsed", n, 0)}
                        /\ EventAt(d + 2) \in {Event("none", 0, 0), Event("fn", n + 1, 0)}
                        /\ Len(events) = d => retryPc = "delay"
                   ELSE /\ i = Len(events)
                        /\ retryPc \in {"break", "done"}
                        /\ retryPc = "done" => retryResult = RetryRejected(events[i].x)

C24_Witness ==
    /\ retryPc = "done" /\ maxAttempts = 3 /\ onRetry
    /\ retryResult = RetryRejected(3)
    /\ Len(EventsOf("onRetry")) = 2 /\ Len(EventsOf("elapsed")) = 2

(* C29: for every value of maxAttempts the outcome of retry originates     *)
(* from fn: retry either resolves with a value returned by an invocation   *)
(* of fn or rejects with an error thrown by an invocation of fn.           *)
C29_OutcomeOriginatesFromFn ==
    retryPc = "done"
        => \/ /\ retryResult.st = "fulfilled"
              /\ \E i \in 1..Len(events) :
                    events[i].e = "fulfilled" /\ events[i].x = retryResult.val
           \/ /\ retryResult.st = "rejected"
              /\ \E i \in 1..Len(events) :
                    events[i].e = "rejected" /\ events[i].x = retryResult.val

---------------------------------------------------------------------------
(* Settlement of withTimeout *)

(* C30: withTimeout settles exactly once and leaves no timer pending: once *)
(* it has settled with the operation's outcome the timer is cleared and    *)
(* never fires, and once it has rejected with the timeout error a later    *)
(* completion or failure of the wrapped operation does not change the      *)
(* outcome.                                                                *)
C30_SettlesOnceNoTimerPending ==
    /\ [](result.st # "pending"
            => /\ timeoutId \in {"cleared", "fired"}
               /\ first = "operation" => (timeoutId = "cleared" /\ timeoutPromise = Pending))
    /\ [][result.st # "pending" => result' = result]_vars
    /\ [][timeoutId = "cleared" => timeoutId' = "cleared"]_vars

C30_Witness ==
    /\ result = promise /\ result.st = "fulfilled"
    /\ timeoutId = "cleared"
    /\ now > deadline /\ jobs = <<>>

---------------------------------------------------------------------------
(* The pointer after a deletion, I/O failures included *)

(* C28: whenever deleteConfig(name) returns true, also when the write that *)
(* clears the pointer file fails or the pointer file cannot be read, the   *)
(* active pointer afterwards does not name the deleted record.             *)
C28_PointerNeverNamesDeleted ==
    (io.op = "deleteConfig" /\ io.ret = TRUE) => getCurrentConfig(files) # Str(io.name)

---------------------------------------------------------------------------
(* Frame properties of the store: what a call leaves alone.  In a step of  *)
(* Spec, last' holds the call made by the step.                            *)

(* the names a record can have: those the schema accepts *)
RecordNameInputs == {n \in NameInputs : NameOk(Str(n))}

(* C25: saveConfig changes at most the record named config.name: for every *)
(* valid record, including any name of 1 to 50 characters such as          *)
(* "current", the value returned by getCurrentConfig() and the contents of *)
(* every other record are the same before and after the call.              *)
C25_SaveChangesOnlyItsRecord ==
    [][(last'.op = "saveConfig" /\ AppConfigSchema(last'.config))
          => /\ getCurrentConfig(files') = getCurrentConfig(files)
             /\ \A n \in RecordNameInputs \ {last'.name} :
                   getConfig(files', n) = getConfig(files, n)]_vars

(* C26: setCurrentConfig changes only the active pointer: for every name   *)
(* n, getConfig(n), configExists(n) and listConfigs() return the same      *)
(* values before and after any setCurrentConfig call, whether it returns   *)
(* true or false.                                                          *)
C26_SetCurrentChangesOnlyPointer ==
    [][last'.op = "setCurrentConfig"
          => /\ listConfigs(files') = listConfigs(files)
             /\ \A n \in NameInputs :
                   /\ getConfig(files', n) = getConfig(files, n)
                   /\ configExists(files', n) = configExists(files, n)]_vars

(* C27: deleteConfig(name) of a record that is not the active one leaves   *)
(* the active pointer unchanged and leaves every other record unchanged;   *)
(* only the record named name is removed.                                  *)
C27_DeleteInactiveChangesOnlyItsRecord ==
    [][(last'.op = "deleteConfig" /\ last'.name \in RecordNameInputs
            /\ RecordExists(files, last'.name) /\ getCurrentConfig(files) # Str(last'.name))
          => /\ getCurrentConfig(files') = getCurrentConfig(files)
             /\ ~RecordExists(files', last'.name)
             /\ \A n \in RecordNameInputs \ {last'.name} :
                   getConfig(files', n) = getConfig(files, n)]_vars

---------------------------------------------------------------------------
(* What the use, create and delete commands do to the active pointer *)

(* C21: the use command changes the active pointer only to the name of a   *)
(* record that exists and passes validation: for an empty or               *)
(* whitespace-only name, or a name for which getConfig returns null, the   *)
(* pointer keeps its previous value; for an existing valid record named    *)
(* name the pointer becomes name.                                          *)
C21_UseActivatesOnlyExistingRecords ==
    cmd.run = "use"
        => LET name == cmd.trace[1].name
           IN  IF trim(name) = <<>> \/ getConfig(cmd.before, name) = Null
               THEN getCurrentConfig(files) = getCurrentConfig(cmd.before)
               ELSE getCurrentConfig(files) = Str(name)

C21_Witness ==
    /\ cmd.run = "use"
    /\ cmd.trace[1].name = <<"a">>
    /\ getCurrentConfig(cmd.before) = Str(<<"b">>)
    /\ getCurrentConfig(files) = Str(<<"a">>)

HasEvent(e) == \E i \in 1..Len(cmd.trace) : cmd.trace[i] = e

(* C22: after a create run whose save succeeds, the active pointer equals  *)
(* the new record's name if the user answered yes to 'Set as active        *)
(* configuration?' and is unchanged if the user answered no; after a       *)
(* create run whose save fails, no record is added and the pointer is      *)
(* unchanged.                                                              *)
C22_CreateSetsPointerOnlyOnYes ==
    (cmd.run = "create" /\ cmd.pc = "returned")
        => \A i \in 1..Len(cmd.trace) :
              cmd.trace[i].kind = "accepted"
                  => LET name == trim(cmd.trace[i].name)
                     IN  IF HasEvent(Ev("info", "Configuration created successfully", name))
                         THEN IF HasEvent(Ev("store", "setCurrentConfig", name))
                              THEN getCurrentConfig(files) = Str(name)
                              ELSE getCurrentConfig(files) = getCurrentConfig(cmd.before)
                         ELSE files = cmd.before

(* C23: after a successful deletion the delete command emits the warning   *)
(* 'No active configuration now' only if the deleted configuration was the *)
(* active one before the deletion.                                         *)
C23_WarnsOnlyWhenActiveDeleted ==
    (cmd.run = "delete" /\ HasEvent(Ev("warn", "No active configuration now", <<>>)))
        => getCurrentConfig(cmd.before) = Str(cmd.configToDelete)

====
